---------------------------- MODULE Spec2Model ----------------------------
(***************************************************************************)
(* A model of youtube-dl-gui: the URL parser, the download pipeline, the   *)
(* thumbnail cropper and the metadata normalizer of core.py, and the       *)
(* background-task glue of the Tk and Qt front-ends.                       *)
(*                                                                         *)
(* Strings are sequences of one-character strings, so that the regular     *)
(* expressions of core.py are matched character by character.              *)
(***************************************************************************)
EXTENDS Integers, Sequences, FiniteSets, TLC

VARIABLES
    \* get_video_id (core.py)
    url_arg,          \* the string handed to get_video_id
    url_pc,           \* "call" before get_video_id is called, "returned" after
    url_result,       \* what get_video_id returned
    \* download (core.py)
    pc,               \* position of download(): start, audio, crop, cleanup, done, raised
    dl_args,          \* download's arguments
    events,           \* raw status keywords the downloader delivered to progress_hook
    emitted,          \* the strings passed to status_changed, in order
    returned,         \* download's return value
    caller_error,     \* the exception that left download()
    failure,          \* which stage raised, and what
    runs,             \* how many times each stage was entered
    \* crop_thumbnail (core.py)
    cover,            \* size of the embedded APIC image, or NoCover
    orig_cover,       \* its size before the first crop
    box,              \* the last box handed to Image.crop
    box_image,        \* the size of the image that box was handed for
    ncrops,           \* applications of crop_thumbnail so far
    crop_raised,      \* the last crop_thumbnail raised
    \* cleanup_metadata (core.py)
    meta_pc,          \* "call" before cleanup_metadata is called, then "returned" or "raised"
    tags,             \* the EasyID3 tags of the file: title, artist, album
    orig_tags,        \* the tags before cleanup_metadata
    meta_ret,         \* what cleanup_metadata returned
    \* the front-ends (youtube-dl-gui-tk.py, youtube-dl-gui-qt.py)
    gui,              \* "tk" or "qt"
    url,              \* text of the URL entry
    video_id,         \* MainWindow.video_id
    download_button,  \* the Download button is enabled
    inputs,           \* the other input controls (URL entry, folder entry, browse) are enabled
    status,           \* the status label
    tasks,            \* the background tasks started so far
    queue             \* Qt: slot calls posted to the GUI thread, not yet run

url_vars == <<url_arg, url_pc, url_result>>
dl_vars == <<pc, dl_args, events, emitted, returned, caller_error, failure, runs>>
crop_vars == <<cover, orig_cover, box, box_image, ncrops, crop_raised>>
meta_vars == <<meta_pc, tags, orig_tags, meta_ret>>
gui_vars == <<gui, url, video_id, download_button, inputs, status, tasks, queue>>
vars == <<url_vars, dl_vars, crop_vars, meta_vars, gui_vars>>

\* Python's Optional: None, or a value.
NONE == [some |-> FALSE]
Some(v) == [some |-> TRUE, val |-> v]

-----------------------------------------------------------------------------
(* Sequences *)

RECURSIVE SeqFlat(_)
\* The concatenation of a sequence of sequences.
SeqFlat(ss) == IF ss = <<>> THEN <<>> ELSE Head(ss) \o SeqFlat(Tail(ss))

\* n, n-1, ..., m
Descending(n, m) == [k \in 1..(IF n >= m THEN n - m + 1 ELSE 0) |-> n - k + 1]

\* The strings over alphabet A of length at most n.
StringsUpTo(A, n) == UNION {[1..k -> A] : k \in 0..n}

-----------------------------------------------------------------------------
(* Character classes of Python's re *)

Letters == {"a", "b", "c", "d", "e", "h", "l", "m", "o", "p", "r", "s", "t",
            "u", "v", "w", "x", "y", "A", "B", "1", "2", "3", "5", "_"}
WhiteSpace == {" ", "\n", "\t"}

\* A character class: the characters listed, or all but them.
Matches(class, c) == (c \in class.chars) # class.negated

Space == [chars |-> WhiteSpace, negated |-> FALSE]                    \* \s
NonSpace == [chars |-> WhiteSpace, negated |-> TRUE]                  \* \S
IdChar == [chars |-> {"&", "#", "?", "\n"}, negated |-> TRUE]         \* [^&#?\n]
SegChar == [chars |-> Letters \cup {"#"}, negated |-> FALSE]          \* [\w#], Letters being \w
Dot == [chars |-> {"\n"}, negated |-> TRUE]                           \* .

IsSpace(c) == Matches(Space, c)
IsSegChar(c) == Matches(SegChar, c)
IsDot(c) == Matches(Dot, c)


-----------------------------------------------------------------------------
(* A backtracking matcher, in the order Python's re tries the alternatives. *)
(* A position is the index of the next character to read; a matcher gives   *)
(* the positions it can stop at, the one the engine tries first at the head. *)

Max(S) == CHOOSE n \in S : \A m \in S : m <= n

\* The length of the longest run of characters of class P starting at i.
RunLen(s, i, class) ==
    Max({n \in 0..(Len(s) - i + 1) : \A k \in i..(i + n - 1) : Matches(class, s[k])})

\* A literal.
Lit(s, i, lit) ==
    IF i + Len(lit) - 1 <= Len(s) /\ SubSeq(s, i, i + Len(lit) - 1) = lit
    THEN <<i + Len(lit)>> ELSE <<>>

\* p then a literal, for each candidate p of ps.
ThenLit(s, ps, lit) == SeqFlat([k \in 1..Len(ps) |-> Lit(s, ps[k], lit)])

\* p then an optional literal (greedy: with the literal first).
ThenOpt(s, ps, lit) == SeqFlat([k \in 1..Len(ps) |-> Lit(s, ps[k], lit) \o <<ps[k]>>])

\* [\w#]+/  : the run as long as possible, given back one character at a time.
OneSegment(s, i) ==
    LET lens == Descending(RunLen(s, i, SegChar), 1)
    IN  SeqFlat([k \in 1..Len(lens) |-> Lit(s, i + lens[k], <<"/">>)])

RECURSIVE Segments(_, _)
\* (?:[\w#]+/)+  : as many segments as possible first.
Segments(s, i) ==
    LET one == OneSegment(s, i)
    IN  SeqFlat([k \in 1..Len(one) |-> Segments(s, one[k]) \o <<one[k]>>])

HTTP == <<"h", "t", "t", "p">>
COLON_SLASHES == <<":", "/", "/">>
WWW_DOT == <<"w", "w", "w", ".">>
YOUTU == <<"y", "o", "u", "t", "u">>
DOT_BE == <<".", "b", "e", "/">>
BE_COM == <<"b", "e", ".", "c", "o", "m", "/">>
WATCH_V == <<"w", "a", "t", "c", "h", "?", "v", "=">>
V_SLASH == <<"v", "/">>
EMBED == <<"e", "m", "b", "e", "d", "/">>
USER == <<"u", "s", "e", "r", "/">>

\* youtu(?:\.be/|be\.com/(?:watch\?v=|v/|embed/|user/(?:[\w#]+/)+)) from i
HostEnds(s, i) ==
    LET y == Lit(s, i, YOUTU)
        short == ThenLit(s, y, DOT_BE)
        com == ThenLit(s, y, BE_COM)
        user == ThenLit(s, com, USER)
    IN  short \o ThenLit(s, com, WATCH_V) \o ThenLit(s, com, V_SLASH)
              \o ThenLit(s, com, EMBED)
              \o SeqFlat([k \in 1..Len(user) |-> Segments(s, user[k])])

\* https?://(?:www\.)?youtu(...)  from the start of s: where the group may begin.
PrefixEnds(s) ==
    LET scheme == ThenLit(s, ThenOpt(s, Lit(s, 1, HTTP), <<"s">>), COLON_SLASHES)
        www == ThenOpt(s, scheme, WWW_DOT)
    IN  SeqFlat([k \in 1..Len(www) |-> HostEnds(s, www[k])])

\* ([^&#?\n]+) from g: <<g, e>> for each end e, the longest group first.
GroupEnds(s, g) ==
    LET lens == Descending(RunLen(s, g, IdChar), 1)
    IN  [k \in 1..Len(lens) |-> <<g, g + lens[k]>>]

\* [^\s]* from e, then the end of the string (fullmatch).
TailFullMatch(s, e) == e + RunLen(s, e, NonSpace) = Len(s) + 1

\* VIDEO_URL_REGEX.fullmatch(s): the <<start, end>> of group 1 of the first
\* alternative that matches the whole of s, in a one-element sequence; <<>> if none.
FullMatch(s) ==
    LET gs == PrefixEnds(s)
        ges == SeqFlat([k \in 1..Len(gs) |-> GroupEnds(s, gs[k])])
        ok == SelectSeq(ges, LAMBDA ge : TailFullMatch(s, ge[2]))
    IN  IF ok = <<>> THEN <<>> ELSE <<Head(ok)>>

\* VIDEO_URL_REGEX.match(s): a match of a prefix of s ([^\s]* stops anywhere).
PrefixMatch(s) ==
    LET gs == PrefixEnds(s)
        ges == SeqFlat([k \in 1..Len(gs) |-> GroupEnds(s, gs[k])])
    IN  IF ges = <<>> THEN <<>> ELSE <<Head(ges)>>

\* get_video_id with re.match in place of re.fullmatch.
get_video_id_prefix(s) ==
    LET m == PrefixMatch(s)
    IN  IF m # <<>> THEN Some(SubSeq(s, m[1][1], m[1][2] - 1)) ELSE NONE

\* get_video_id: group 1 of the full match, or None.
get_video_id(s) ==
    LET m == FullMatch(s)
    IN  IF m # <<>> THEN Some(SubSeq(s, m[1][1], m[1][2] - 1)) ELSE NONE

-----------------------------------------------------------------------------
(* The specification of get_video_id: every URL of a bounded set is parsed. *)

MaxTail == 4

TailChars == {"a", "/", "&", "#", " ", "\n"}

HTTPS == HTTP \o <<"s">>
EXAMPLE_COM == <<"e", "x", "a", "m", "p", "l", "e", ".", "c", "o", "m", "/">>

\* What precedes the tail: the accepted forms, and near misses of them.
Heads ==
    { HTTPS \o COLON_SLASHES \o WWW_DOT \o YOUTU \o BE_COM \o WATCH_V,
      HTTPS \o COLON_SLASHES \o WWW_DOT \o YOUTU \o BE_COM \o V_SLASH,
      HTTPS \o COLON_SLASHES \o WWW_DOT \o YOUTU \o BE_COM \o EMBED,
      HTTPS \o COLON_SLASHES \o WWW_DOT \o YOUTU \o BE_COM \o USER,
      HTTP \o COLON_SLASHES \o YOUTU \o DOT_BE,
      HTTPS \o COLON_SLASHES \o YOUTU \o DOT_BE,
      <<"x">> \o HTTPS \o COLON_SLASHES \o YOUTU \o DOT_BE,
      HTTPS \o COLON_SLASHES \o WWW_DOT \o YOUTU \o BE_COM,
      HTTPS \o COLON_SLASHES \o EXAMPLE_COM,
      <<>> }

\* 'https://www.youtube.com/watch?v=abc123&t=5s' and 'https://example.com/abc123'
ExampleUrl ==
    HTTPS \o COLON_SLASHES \o WWW_DOT \o YOUTU \o BE_COM \o WATCH_V
          \o <<"a", "b", "c", "1", "2", "3", "&", "t", "=", "5", "s">>
ExampleForeignUrl == HTTPS \o COLON_SLASHES \o EXAMPLE_COM \o <<"a", "b", "c", "1", "2", "3">>

Urls == {h \o t : h \in Heads, t \in StringsUpTo(TailChars, MaxTail)}
            \cup {ExampleUrl, ExampleForeignUrl}

UrlIdle == url_arg = <<>> /\ url_pc = "idle" /\ url_result = NONE
DlIdle ==
    /\ pc = "idle" /\ dl_args = <<>> /\ events = <<>> /\ emitted = <<>>
    /\ returned = NONE /\ caller_error = "" /\ failure = <<>> /\ runs = <<>>
CropIdle ==
    /\ cover = <<>> /\ orig_cover = <<>> /\ box = <<>> /\ box_image = <<>> /\ ncrops = 0
    /\ crop_raised = FALSE
MetaIdle == meta_pc = "idle" /\ tags = <<>> /\ orig_tags = <<>> /\ meta_ret = <<>>
GuiIdle ==
    /\ gui = "" /\ url = <<>> /\ video_id = NONE /\ download_button = FALSE
    /\ inputs = FALSE /\ status = "" /\ tasks = <<>> /\ queue = <<>>

UrlInit ==
    /\ url_arg \in Urls
    /\ url_pc = "call"
    /\ url_result = NONE
    /\ DlIdle /\ CropIdle /\ MetaIdle /\ GuiIdle

\* get_video_id(url) is called and returns.
GetVideoId ==
    /\ url_pc = "call"
    /\ url_pc' = "returned"
    /\ url_result' = get_video_id(url_arg)
    /\ UNCHANGED <<url_arg, dl_vars, crop_vars, meta_vars, gui_vars>>

UrlNext == GetVideoId

SpecUrl == UrlInit /\ [][UrlNext]_vars

-----------------------------------------------------------------------------
(* The URL grammar of the specification, stated without a matching order. *)

\* <segment>/<segment>/.../ : non-empty runs of [\w#], each closed by a slash.
IsSegments(p) ==
    /\ p # <<>>
    /\ p[Len(p)] = "/"
    /\ p[1] # "/"
    /\ \A k \in 1..Len(p) : IsSegChar(p[k]) \/ p[k] = "/"
    /\ \A k \in 1..(Len(p) - 1) : ~(p[k] = "/" /\ p[k + 1] = "/")

\* The host prefixes: scheme, optional www., and one of the accepted hosts.
IsHostPrefix(p) ==
    \E scheme \in {HTTP \o COLON_SLASHES, HTTPS \o COLON_SLASHES}, www \in {<<>>, WWW_DOT} :
        LET q == scheme \o www \o YOUTU
        IN  \/ p \in {q \o DOT_BE, q \o BE_COM \o WATCH_V, q \o BE_COM \o V_SLASH,
                      q \o BE_COM \o EMBED}
            \/ LET u == q \o BE_COM \o USER
               IN  /\ Len(p) > Len(u)
                   /\ SubSeq(p, 1, Len(u)) = u
                   /\ IsSegments(SubSeq(p, Len(u) + 1, Len(p)))

\* s[g..e-1] is an identifier of s: a non-empty run without & # ? or newline that
\* ends at the first & # ? or at the end of s, and what follows has no whitespace.
IsIdAt(s, g, e) ==
    /\ g < e
    /\ e <= Len(s) + 1
    /\ \A k \in g..(e - 1) : s[k] \notin {"&", "#", "?", "\n"}
    /\ e <= Len(s) => s[e] \in {"&", "#", "?"}
    /\ \A k \in e..Len(s) : ~IsSpace(s[k])

\* s matches the URL grammar: <host prefix><id><rest>.
InGrammar(s) ==
    \E g \in 1..Len(s) :
        /\ IsHostPrefix(SubSeq(s, 1, g - 1))
        /\ \E e \in (g + 1)..(Len(s) + 1) : IsIdAt(s, g, e)

\* s matches the URL grammar with id as its identifier.
IdInGrammar(s, id) ==
    \E g \in 1..Len(s) :
        /\ g + Len(id) <= Len(s) + 1
        /\ SubSeq(s, g, g + Len(id) - 1) = id
        /\ IsIdAt(s, g, g + Len(id))
        /\ IsHostPrefix(SubSeq(s, 1, g - 1))

\* C7: get_video_id returns an identifier if and only if the whole string matches
\* the URL grammar, and the identifier is then the non-empty run that follows the
\* host prefix up to the first '&', '#', '?' or the end of the string; a string
\* that does not fully match gives None. The example URL gives 'abc123' and the
\* foreign URL gives None.
C7_GetVideoIdMatchesGrammar ==
    url_pc = "returned" =>
        /\ url_result.some <=> InGrammar(url_arg)
        /\ url_result.some => IdInGrammar(url_arg, url_result.val)
        /\ url_arg = ExampleUrl => url_result = Some(<<"a", "b", "c", "1", "2", "3">>)
        /\ url_arg = ExampleForeignUrl => url_result = NONE

\* A URL with a query after the identifier was parsed.
C7_Witness ==
    /\ url_pc = "returned"
    /\ url_arg = HTTPS \o COLON_SLASHES \o YOUTU \o DOT_BE \o <<"a", "/", "&", "a">>
    /\ url_result = Some(<<"a", "/">>)

-----------------------------------------------------------------------------
(* download: the pipeline orchestrator, with the downloader, the cropper and *)
(* the normalizer as stages that return or raise.                            *)

MaxEvents == 3

YouTubeDLStatus == {"downloading", "finished", "error"}

\* The progress dictionaries the downloader may hand to progress_hook: a status
\* keyword, and a percentage string when it has one.
RawProgress ==
    [status : {"downloading"}, percent : {NONE, Some(" 50.0%"), Some("100%")}]
        \cup [status : {"finished", "error", "postprocessing"}, percent : {NONE}]

VideoIds == {"abc123", "dQw4"}
Folders == {"C:\\Music"}
Errors == {"DownloadError", "KeyError"}

\* str() of an optional string inside an f-string.
FormatOptional(o) == IF o.some THEN o.val ELSE "None"

\* download_folder / f'{video_id}.{codec}'
download_audio_path(id, folder) == <<folder, "/", id, ".", "mp3">>

\* A status string, as the fragments the f-string joins.
SavedAs(path) == <<"Saved as ">> \o path

\* youtube_dl_progress_changed without its ERROR case.
youtube_dl_progress_changed_no_error(progress) ==
    CASE progress.status = "downloading" ->
            << <<"Downloading ", FormatOptional(progress.percent)>> >>
      [] progress.status = "finished" -> << <<"Converting">> >>
      [] OTHER -> <<>>

\* youtube_dl_progress_changed with FINISHED falling into the DOWNLOADING case.
youtube_dl_progress_changed_fallthrough(progress) ==
    CASE progress.status \in {"downloading", "finished"} ->
            << <<"Downloading ", FormatOptional(progress.percent)>> >>
      [] progress.status = "error" -> << <<"Error occurred">> >>

\* youtube_dl_progress_changed: the status_changed calls one progress event makes.
youtube_dl_progress_changed(progress) ==
    CASE progress.status = "downloading" ->
            << <<"Downloading ", FormatOptional(progress.percent)>> >>
      [] progress.status = "finished" -> << <<"Converting">> >>
      [] progress.status = "error" -> << <<"Error occurred">> >>

NoRuns == [download_audio |-> 0, crop_thumbnail |-> 0, cleanup_metadata |-> 0]

DlInit ==
    /\ pc = "start"
    /\ dl_args \in [video_id : VideoIds, download_folder : Folders,
                    return_title_and_artist : BOOLEAN]
    /\ events = <<>>
    /\ emitted = <<>>
    /\ returned = NONE
    /\ caller_error = ""
    /\ failure = <<>>
    /\ runs = NoRuns
    /\ UrlIdle /\ CropIdle /\ MetaIdle /\ GuiIdle

mp3_path == download_audio_path(dl_args.video_id, dl_args.download_folder)

\* A stage raises e: nothing in download catches it, so it leaves download.
Raise(stage, e) ==
    /\ failure' = <<stage, e>>
    /\ caller_error' = e
    /\ pc' = "raised"

\* download is called: 'Initializing download', then download_audio is entered.
DownloadStart ==
    /\ pc = "start"
    /\ emitted' = Append(emitted, <<"Initializing download">>)
    /\ runs' = [runs EXCEPT !.download_audio = @ + 1]
    /\ pc' = "audio"
    /\ UNCHANGED <<dl_args, events, returned, caller_error, failure>>
    /\ UNCHANGED <<url_vars, crop_vars, meta_vars, gui_vars>>

\* The downloader calls progress_hook: YouTubeDLStatus(...) raises ValueError on a
\* keyword outside the enum, otherwise the event goes to youtube_dl_progress_changed.
ProgressHook ==
    /\ pc = "audio"
    /\ Len(events) < MaxEvents
    /\ \E progress \in RawProgress :
        /\ events' = Append(events, progress)
        /\ IF progress.status \in YouTubeDLStatus
           THEN /\ emitted' = emitted \o youtube_dl_progress_changed(progress)
                /\ UNCHANGED <<pc, caller_error, failure>>
           ELSE /\ Raise("download_audio", "ValueError")
                /\ UNCHANGED emitted
    /\ UNCHANGED <<dl_args, returned, runs>>
    /\ UNCHANGED <<url_vars, crop_vars, meta_vars, gui_vars>>

\* ydl.download returns: download_audio returns the path, 'Cropping thumbnail',
\* and crop_thumbnail is entered.
AudioReturns ==
    /\ pc = "audio"
    /\ emitted' = Append(emitted, <<"Cropping thumbnail">>)
    /\ runs' = [runs EXCEPT !.crop_thumbnail = @ + 1]
    /\ pc' = "crop"
    /\ UNCHANGED <<dl_args, events, returned, caller_error, failure>>
    /\ UNCHANGED <<url_vars, crop_vars, meta_vars, gui_vars>>

\* ydl.download raises.
AudioRaises ==
    /\ pc = "audio"
    /\ \E e \in Errors : Raise("download_audio", e)
    /\ UNCHANGED <<dl_args, events, emitted, returned, runs>>
    /\ UNCHANGED <<url_vars, crop_vars, meta_vars, gui_vars>>

\* crop_thumbnail returns: 'Cleaning up metadata', and cleanup_metadata is entered.
CropReturns ==
    /\ pc = "crop"
    /\ emitted' = Append(emitted, <<"Cleaning up metadata">>)
    /\ runs' = [runs EXCEPT !.cleanup_metadata = @ + 1]
    /\ pc' = "cleanup"
    /\ UNCHANGED <<dl_args, events, returned, caller_error, failure>>
    /\ UNCHANGED <<url_vars, crop_vars, meta_vars, gui_vars>>

\* crop_thumbnail raises, and the pipeline carries on as if it were caught.
CropRaisesSwallowed ==
    /\ pc = "crop"
    /\ \E e \in Errors : failure' = <<"crop_thumbnail", e>>
    /\ emitted' = Append(emitted, <<"Cleaning up metadata">>)
    /\ runs' = [runs EXCEPT !.cleanup_metadata = @ + 1]
    /\ pc' = "cleanup"
    /\ UNCHANGED <<dl_args, events, returned, caller_error>>
    /\ UNCHANGED <<url_vars, crop_vars, meta_vars, gui_vars>>

\* crop_thumbnail raises.
CropRaises ==
    /\ pc = "crop"
    /\ \E e \in Errors : Raise("crop_thumbnail", e)
    /\ UNCHANGED <<dl_args, events, emitted, returned, runs>>
    /\ UNCHANGED <<url_vars, crop_vars, meta_vars, gui_vars>>

\* cleanup_metadata returns (title, artist): 'Saved as <path>', and download returns
\* the path, with the title and the artist when asked to.
CleanupReturns ==
    /\ pc = "cleanup"
    /\ emitted' = Append(emitted, SavedAs(mp3_path))
    /\ returned' = Some([path |-> mp3_path,
                         title_and_artist |-> IF dl_args.return_title_and_artist
                                              THEN <<"title", "artist">> ELSE <<>>])
    /\ pc' = "done"
    /\ UNCHANGED <<dl_args, events, caller_error, failure, runs>>
    /\ UNCHANGED <<url_vars, crop_vars, meta_vars, gui_vars>>

\* cleanup_metadata raises.
CleanupRaises ==
    /\ pc = "cleanup"
    /\ \E e \in Errors : Raise("cleanup_metadata", e)
    /\ UNCHANGED <<dl_args, events, emitted, returned, runs>>
    /\ UNCHANGED <<url_vars, crop_vars, meta_vars, gui_vars>>

DlNext ==
    \/ DownloadStart
    \/ ProgressHook
    \/ AudioReturns
    \/ AudioRaises
    \/ CropReturns
    \/ CropRaises
    \/ CleanupReturns
    \/ CleanupRaises

SpecDownload == DlInit /\ [][DlNext]_vars

-----------------------------------------------------------------------------
(* Properties of download *)

Label(msg) == msg[1]

\* How many times a status with this label was emitted.
Count(label) == Cardinality({k \in 1..Len(emitted) : Label(emitted[k]) = label})

ProgressLabels == {"Downloading ", "Converting", "Error occurred"}
PostprocessingLabels == {"Cropping thumbnail", "Cleaning up metadata", "Saved as "}

\* One or more Downloading events followed by a Finished event.
DownloadingThenFinished(evs) ==
    /\ Len(evs) >= 2
    /\ \A k \in 1..(Len(evs) - 1) : evs[k].status = "downloading"
    /\ evs[Len(evs)].status = "finished"

\* C1: in a successful run whose downloader reported one or more Downloading
\* events and then Finished, status_changed received 'Initializing download', the
\* 'Downloading <pct>' messages, 'Converting', 'Cropping thumbnail', 'Cleaning up
\* metadata' and last 'Saved as <path>', <path> being the path download returns.
C1_SuccessfulRunStatuses ==
    (pc = "done" /\ DownloadingThenFinished(events)) =>
        /\ returned.some
        /\ emitted =
              << <<"Initializing download">> >>
              \o [k \in 1..(Len(events) - 1) |->
                     <<"Downloading ", IF events[k].percent.some
                                       THEN events[k].percent.val ELSE "None">>]
              \o << <<"Converting">>, <<"Cropping thumbnail">>,
                    <<"Cleaning up metadata">>,
                    <<"Saved as ">> \o returned.val.path >>

\* A run with two Downloading events and Finished has returned.
C1_Witness ==
    /\ pc = "done"
    /\ Len(events) = 3
    /\ DownloadingThenFinished(events)
    /\ returned.some

\* The labels of the phases after a stage.
LaterLabels(stage) ==
    CASE stage = "download_audio" -> PostprocessingLabels
      [] stage = "crop_thumbnail" -> {"Cleaning up metadata", "Saved as "}
      [] stage = "cleanup_metadata" -> {"Saved as "}

\* C2: once a stage of download has raised, no status of a later phase is emitted,
\* no stage is run again, download returns no value, and the caller receives the
\* error the stage raised.
C2_AbortOnFailure ==
    failure # <<>> =>
        /\ pc = "raised"
        /\ returned = NONE
        /\ caller_error = failure[2]
        /\ \A k \in 1..Len(emitted) : Label(emitted[k]) \notin LaterLabels(failure[1])
        /\ \A stage \in DOMAIN runs : runs[stage] <= 1

\* crop_thumbnail raised after a download that reported progress.
C2_Witness ==
    /\ failure # <<>>
    /\ failure[1] = "crop_thumbnail"
    /\ pc = "raised"
    /\ Len(events) >= 1

\* C3 as stated: whatever events the downloader delivers, no label other than
\* 'Downloading' is emitted twice, no 'Downloading' follows 'Converting', and no
\* postprocessing label follows 'Error occurred'.
C3_AsStated ==
    /\ \A label \in (ProgressLabels \cup PostprocessingLabels
                        \cup {"Initializing download"}) \ {"Downloading "} :
           Count(label) <= 1
    /\ \A i, j \in 1..Len(emitted) :
           i < j => ~(Label(emitted[i]) = "Converting" /\ Label(emitted[j]) = "Downloading ")
    /\ \A i, j \in 1..Len(emitted) :
           i < j => ~(/\ Label(emitted[i]) = "Error occurred"
                      /\ Label(emitted[j]) \in PostprocessingLabels)

\* The place of a status in the pipeline.
PhaseRank(msg) ==
    CASE Label(msg) = "Initializing download" -> 1
      [] Label(msg) \in ProgressLabels -> 2
      [] Label(msg) = "Cropping thumbnail" -> 3
      [] Label(msg) = "Cleaning up metadata" -> 4
      [] Label(msg) = "Saved as " -> 5

\* The status one event of the enum stands for.
StatusOf(progress) ==
    CASE progress.status = "downloading" ->
            <<"Downloading ", IF progress.percent.some THEN progress.percent.val ELSE "None">>
      [] progress.status = "finished" -> <<"Converting">>
      [] progress.status = "error" -> <<"Error occurred">>

\* C3 as amended: the statuses are in phase order, the four fixed labels are each
\* emitted at most once, and between 'Initializing download' and 'Cropping
\* thumbnail' there is exactly one status per progress event, in delivery order
\* (so 'Converting' and 'Error occurred' repeat when their events do).
C3_PhaseOrderAndOneStatusPerEvent ==
    /\ \A i, j \in 1..Len(emitted) : i < j => PhaseRank(emitted[i]) <= PhaseRank(emitted[j])
    /\ \A label \in PostprocessingLabels \cup {"Initializing download"} : Count(label) <= 1
    /\ LET known == SelectSeq(events, LAMBDA ev : ev.status \in YouTubeDLStatus)
       IN  SelectSeq(emitted, LAMBDA msg : Label(msg) \in ProgressLabels)
               = [k \in 1..Len(known) |-> StatusOf(known[k])]

\* A run that returned after two Finished events or after an Error event.
C3_Witness ==
    /\ pc = "done"
    /\ Count("Converting") = 2
    /\ Count("Error occurred") = 1

-----------------------------------------------------------------------------
(* crop_thumbnail: the embedded cover is cropped around its centre to a box   *)
(* as wide as the image is tall, shrunk to fit thumbnail_size, and embedded   *)
(* again. An image is its size <<width, height>>; <<>> is a file without an   *)
(* APIC frame.                                                                *)

thumbnail_size == 512

MaxSmall == 6
MaxNear == 2
MaxCrops == 2

Abs(n) == IF n < 0 THEN -n ELSE n

\* Pillow's round_aspect(number, key) is max(min(floor, ceil, key=key), 1): of the
\* floor and the ceiling of number the one with the smaller key, the floor on a
\* tie, and at least 1.
\* The width for height y: number = y * w / h, key(n) = |w / h - n / y|.
RoundAspectWidth(w, h, y) ==
    LET lo == (y * w) \div h
        hi == IF (y * w) % h = 0 THEN lo ELSE lo + 1
        best == IF Abs(w * y - hi * h) < Abs(w * y - lo * h) THEN hi ELSE lo
    IN  IF best < 1 THEN 1 ELSE best

\* The height for width x: number = x * h / w, key(n) = 0 if n == 0 else |w / h - x / n|.
RoundAspectHeight(w, h, x) ==
    LET lo == (x * h) \div w
        hi == IF (x * h) % w = 0 THEN lo ELSE lo + 1
        best == IF lo # 0 /\ Abs(w * hi - x * h) * lo < Abs(w * lo - x * h) * hi
                THEN hi ELSE lo
    IN  IF best < 1 THEN 1 ELSE best

\* Image.thumbnail(size=(x, y)) on an image of size <<w, h>>: untouched when it
\* fits, otherwise shrunk to fit with the aspect ratio kept.
Thumbnail(img, x, y) ==
    LET w == img[1]
        h == img[2]
    IN  IF x >= w /\ y >= h THEN img
        ELSE IF x * h >= w * y
             \* x / y >= aspect: the width follows the height
             THEN <<RoundAspectWidth(w, h, y), y>>
             \* the height follows the width
             ELSE <<x, RoundAspectHeight(w, h, x)>>

\* The box crop_thumbnail computes for an image of size <<width, height>>.
CropBox(img) ==
    LET center == img[1] \div 2
        width == img[2]
        height == img[2]
    IN  <<center - width \div 2, 0, center + width \div 2, height>>

\* Image.crop(box): the size of the region, whatever of it lies in the image.
Crop(b) == <<b[3] - b[1], b[4] - b[2]>>

\* The sizes of the embedded covers: small ones of every shape, ones around the
\* thumbnail bound, and the usual video thumbnails.
Dims == (1..MaxSmall) \cup ((thumbnail_size - MaxNear)..(thumbnail_size + MaxNear))
Covers == (Dims \X Dims) \cup {<<1280, 720>>, <<480, 360>>, <<1920, 1080>>}

CropInit ==
    /\ cover \in Covers \cup {<<>>}
    /\ orig_cover = cover
    /\ box = <<>>
    /\ box_image = <<>>
    /\ ncrops = 0
    /\ crop_raised = FALSE
    /\ UrlIdle /\ DlIdle /\ MetaIdle /\ GuiIdle

\* crop_thumbnail(mp3): nothing without an APIC frame; otherwise crop, thumbnail,
\* save as JPEG (which raises on an image without pixels) and embed.
CropThumbnail ==
    /\ ncrops < MaxCrops
    /\ ~crop_raised
    /\ ncrops' = ncrops + 1
    /\ IF cover = <<>>
       THEN UNCHANGED <<cover, box, box_image, crop_raised>>
       ELSE LET b == CropBox(cover)
                album_cover == Thumbnail(Crop(b), thumbnail_size, thumbnail_size)
            IN  /\ box' = b
                /\ box_image' = cover
                /\ IF album_cover[1] = 0 \/ album_cover[2] = 0
                   THEN crop_raised' = TRUE /\ UNCHANGED cover
                   ELSE cover' = album_cover /\ UNCHANGED crop_raised
    /\ UNCHANGED orig_cover
    /\ UNCHANGED <<url_vars, dl_vars, meta_vars, gui_vars>>

CropNext == CropThumbnail

SpecCrop == CropInit /\ [][CropNext]_vars

\* C4 as stated: a cover wider than tall is embedded again as a square image no
\* larger than 512 in either dimension, after one crop and after a second one
\* (stated of the crops that embedded an image, whatever the image library does
\* with a region without pixels).
C4_WideCoverBecomesSquare ==
    (orig_cover # <<>> /\ ncrops >= 1 /\ ~crop_raised) =>
        (orig_cover[1] > orig_cover[2] =>
            /\ cover[1] = cover[2]
            /\ cover[1] <= thumbnail_size
            /\ cover[2] <= thumbnail_size)

\* C5 as stated: the box handed to Image.crop for an image of width W has
\* 0 <= left < right <= W, whatever the shape of the image.
C5_CropBoxInsideImage ==
    box # <<>> => (0 <= box[1] /\ box[1] < box[3] /\ box[3] <= box_image[1])

-----------------------------------------------------------------------------
(* cleanup_metadata: re.sub(rf'{artist}\s+.+?\s+', '', title). The artist tag  *)
(* is pasted into the pattern unescaped, so a '.' in it matches any character. *)

MaxTitleLen == 8

\* One character of the artist, read as a pattern, against one of the title.
ArtistCharMatches(p, c) == IF p = "." THEN IsDot(c) ELSE p = c

\* {artist} from i.
ArtistEnds(s, i, artist) ==
    IF /\ i + Len(artist) - 1 <= Len(s)
       /\ \A k \in 1..Len(artist) : ArtistCharMatches(artist[k], s[i + k - 1])
    THEN <<i + Len(artist)>> ELSE <<>>

\* \s+ from i: the longest run first.
SpacesEnds(s, i) ==
    LET lens == Descending(RunLen(s, i, Space), 1)
    IN  [k \in 1..Len(lens) |-> i + lens[k]]

\* .+? from i: the shortest run first.
LazyAnyEnds(s, i) == [k \in 1..RunLen(s, i, Dot) |-> i + k]

\* {artist}\s+.+?\s+ from i: the ends of the match, the one re takes at the head.
PatternEnds(s, i, artist) ==
    LET a == ArtistEnds(s, i, artist)
        b == SeqFlat([k \in 1..Len(a) |-> SpacesEnds(s, a[k])])
        c == SeqFlat([k \in 1..Len(b) |-> LazyAnyEnds(s, b[k])])
    IN  SeqFlat([k \in 1..Len(c) |-> SpacesEnds(s, c[k])])

RECURSIVE Search(_, _, _)
\* re.search from position from: <<start, end>> of the leftmost match, or <<>>.
Search(s, from, artist) ==
    IF from > Len(s) THEN <<>>
    ELSE LET ends == PatternEnds(s, from, artist)
         IN  IF ends # <<>> THEN <<from, Head(ends)>>
             ELSE Search(s, from + 1, artist)

RECURSIVE SubFrom(_, _, _)
\* re.sub(pattern, '', s) from position from on: every match is dropped, the
\* search going on where the match before ended.
SubFrom(s, from, artist) ==
    LET m == Search(s, from, artist)
    IN  IF m = <<>> THEN SubSeq(s, from, Len(s))
        ELSE SubSeq(s, from, m[1] - 1) \o SubFrom(s, m[2], artist)

\* re.sub(pattern, '', title, count=1)
re_sub_first(artist, title) ==
    LET m == Search(title, 1, artist)
    IN  IF m = <<>> THEN title
        ELSE SubSeq(title, 1, m[1] - 1) \o SubSeq(title, m[2], Len(title))

\* re.sub(rf'{artist}\s+.+?\s+', '', title)
re_sub(artist, title) == SubFrom(title, 1, artist)

TitleChars == {"A", " ", "x"}
Artists == {<<"A">>, <<".">>, <<"A", " ", "A">>}

\* 'Artist Name - Cool Song (Official Video)' by 'Artist Name'
ExampleArtist == <<"A", "r", "t", "i", "s", "t", " ", "N", "a", "m", "e">>
ExampleRest ==
    <<"C", "o", "o", "l", " ", "S", "o", "n", "g", " ", "(", "O", "f", "f", "i", "c",
      "i", "a", "l", " ", "V", "i", "d", "e", "o", ")">>
ExampleTitle == ExampleArtist \o <<" ", "-", " ">> \o ExampleRest

\* The tags of the downloaded file: album may be missing or empty, and so may the
\* tags cleanup_metadata requires.
TagSets ==
    [title : {Some(s) : s \in StringsUpTo(TitleChars, MaxTitleLen)},
     artist : {Some(a) : a \in Artists},
     album : {NONE}]
    \cup [title : {Some(ExampleTitle)}, artist : {Some(ExampleArtist)},
          album : {NONE, Some(<<"L", "P">>)}]
    \cup [title : {NONE, Some(<<"A", " ", "x", " ", "x">>)},
          artist : {NONE, Some(<<"A">>)},
          album : {NONE, Some(<<>>), Some(<<"L", "P">>)}]

MetaInit ==
    /\ meta_pc = "call"
    /\ tags \in TagSets
    /\ orig_tags = tags
    /\ meta_ret = <<>>
    /\ UrlIdle /\ DlIdle /\ CropIdle /\ GuiIdle

\* cleanup_metadata(mp3): KeyError without a title or an artist; otherwise the
\* title is rewritten, a missing or empty album becomes the title, and the title
\* and the artist are returned.
CleanupMetadata ==
    /\ meta_pc = "call"
    /\ IF ~tags.title.some \/ ~tags.artist.some
       THEN /\ meta_pc' = "raised"
            /\ UNCHANGED <<tags, meta_ret>>
       ELSE LET title == re_sub(tags.artist.val, tags.title.val)
                album == tags.album
            IN  /\ tags' = [tags EXCEPT
                              !.title = Some(title),
                              !.album = IF ~album.some \/ album.val = <<>>
                                        THEN Some(title) ELSE album]
                /\ meta_ret' = <<title, tags.artist.val>>
                /\ meta_pc' = "returned"
    /\ UNCHANGED orig_tags
    /\ UNCHANGED <<url_vars, dl_vars, crop_vars, gui_vars>>

MetaNext == CleanupMetadata

SpecMeta == MetaInit /\ [][MetaNext]_vars

-----------------------------------------------------------------------------
(* Properties of cleanup_metadata, with the matches of the pattern stated as   *)
(* splits of the title rather than by a matching order.                        *)

\* s[i..j-1] is all of class P.
AllOf(s, i, j, P(_)) == \A k \in i..(j - 1) : P(s[k])

\* The splits <<b, c, j>> of a match of {artist}\s+.+?\s+ that starts at i: the
\* artist up to a, whitespace up to b, any characters up to c, whitespace up to j.
MatchSplits(s, i, artist) ==
    LET a == i + Len(artist)
    IN  IF ~(/\ a - 1 <= Len(s)
             /\ \A k \in 1..Len(artist) :
                    \/ artist[k] = "." /\ s[i + k - 1] # "\n"
                    \/ artist[k] # "." /\ s[i + k - 1] = artist[k])
        THEN {}
        ELSE UNION { UNION { {<<b, c, j>> : j \in {j \in (c + 1)..(Len(s) + 1) :
                                                       AllOf(s, c, j, IsSpace)}} :
                             c \in {c \in (b + 1)..Len(s) : AllOf(s, b, c, IsDot)} } :
                     b \in {b \in (a + 1)..Len(s) : AllOf(s, a, b, IsSpace)} }

\* The split re takes: the first whitespace as long as possible, then the lazy run
\* as short as possible, then the last whitespace as long as possible.
TakenSplit(S) ==
    CHOOSE x \in S : \A y \in S :
        \/ x[1] > y[1]
        \/ x[1] = y[1] /\ x[2] < y[2]
        \/ x[1] = y[1] /\ x[2] = y[2] /\ x[3] >= y[3]

RECURSIVE WithoutMatches(_, _, _, _)
\* s from position from on, without the first n matches of the pattern (found left
\* to right, each search starting where the match before ended).
WithoutMatches(s, from, artist, n) ==
    LET starts == {i \in from..Len(s) : MatchSplits(s, i, artist) # {}}
    IN  IF n = 0 \/ starts = {} THEN SubSeq(s, from, Len(s))
        ELSE LET i == CHOOSE i \in starts : \A k \in starts : i <= k
                 j == TakenSplit(MatchSplits(s, i, artist))[3]
             IN  SubSeq(s, from, i - 1) \o WithoutMatches(s, j, artist, n - 1)

\* How many matches re.sub finds in s from position from on.
RECURSIVE MatchCount(_, _, _)
MatchCount(s, from, artist) ==
    LET starts == {i \in from..Len(s) : MatchSplits(s, i, artist) # {}}
    IN  IF starts = {} THEN 0
        ELSE LET i == CHOOSE i \in starts : \A k \in starts : i <= k
             IN  1 + MatchCount(s, TakenSplit(MatchSplits(s, i, artist))[3], artist)

-----------------------------------------------------------------------------
(* The front-ends. A download runs in a background task: a Thread whose run   *)
(* calls on_completed itself (Tk), or a QRunnable whose finished signal is    *)
(* delivered to the slots of the window through the GUI thread's event queue  *)
(* (Qt). The user acts between any two steps of the workers.                  *)

MaxTasks == 3

YOUTU_BE == HTTPS \o COLON_SLASHES \o YOUTU \o DOT_BE

\* What the URL entry may hold: nothing, a URL still without its identifier, and
\* two complete URLs.
GuiUrls == {<<>>, YOUTU_BE, YOUTU_BE \o <<"a">>, YOUTU_BE \o <<"b">>}

GuiErrors == {"DownloadError"}

NewTask == [pc |-> "start", video_id |-> NONE, error |-> "", calls |-> <<>>]

TaskIds == 1..Len(tasks)

GuiInit ==
    /\ gui \in {"tk", "qt"}
    /\ url = <<>>
    /\ video_id = NONE
    /\ download_button = FALSE
    /\ inputs = TRUE
    /\ status = "No URL"
    /\ tasks = <<>>
    /\ queue = <<>>
    /\ UrlIdle /\ DlIdle /\ CropIdle /\ MetaIdle

\* Tk: the user edits the URL; _url_changed.
TkUrlChanged ==
    /\ gui = "tk"
    /\ inputs
    /\ \E text \in GuiUrls \ {url} :
        /\ url' = text
        /\ video_id' = get_video_id(text)
        /\ download_button' = get_video_id(text).some
        /\ status' = IF get_video_id(text).some THEN "Can download" ELSE "Invalid URL"
    /\ UNCHANGED <<gui, inputs, tasks, queue>>
    /\ UNCHANGED <<url_vars, dl_vars, crop_vars, meta_vars>>

\* Tk: Download is pressed; _download_pressed disables every button and entry and
\* starts a BackgroundTask.
TkDownloadPressed ==
    /\ gui = "tk"
    /\ download_button
    /\ Len(tasks) < MaxTasks
    /\ download_button' = FALSE
    /\ inputs' = FALSE
    /\ tasks' = Append(tasks, NewTask)
    /\ UNCHANGED <<gui, url, video_id, status, queue>>
    /\ UNCHANGED <<url_vars, dl_vars, crop_vars, meta_vars>>

\* Tk: the thread calls op: download(video_id=self.video_id, ...) reads the
\* window's video_id now, and reports its first status.
TkRunOp ==
    /\ gui = "tk"
    /\ \E t \in TaskIds :
        /\ tasks[t].pc = "start"
        /\ tasks' = [tasks EXCEPT ![t].pc = "op", ![t].video_id = video_id]
    /\ status' = "Initializing download"
    /\ UNCHANGED <<gui, url, video_id, download_button, inputs, queue>>
    /\ UNCHANGED <<url_vars, dl_vars, crop_vars, meta_vars>>

\* Tk: op returns; run goes to its finally clause.
TkOpReturns ==
    /\ gui = "tk"
    /\ \E t \in TaskIds :
        /\ tasks[t].pc = "op"
        /\ tasks' = [tasks EXCEPT ![t].pc = "finally"]
    /\ status' = "Saved as"
    /\ UNCHANGED <<gui, url, video_id, download_button, inputs, queue>>
    /\ UNCHANGED <<url_vars, dl_vars, crop_vars, meta_vars>>

\* Tk: op raises; run goes to its except clause.
TkOpRaises ==
    /\ gui = "tk"
    /\ \E t \in TaskIds, e \in GuiErrors :
        /\ tasks[t].pc = "op"
        /\ tasks' = [tasks EXCEPT ![t].pc = "except", ![t].error = e]
    /\ UNCHANGED <<gui, url, video_id, download_button, inputs, status, queue>>
    /\ UNCHANGED <<url_vars, dl_vars, crop_vars, meta_vars>>

\* Tk: the except clause calls on_completed(exception): _download_completed shows
\* the error, sets the status and enables every button and entry. The finally
\* clause is still to run.
TkExcept ==
    /\ gui = "tk"
    /\ \E t \in TaskIds :
        /\ tasks[t].pc = "except"
        /\ tasks' = [tasks EXCEPT ![t].pc = "finally",
                                  ![t].calls = Append(@, tasks[t].error)]
    /\ status' = "Error"
    /\ download_button' = TRUE
    /\ inputs' = TRUE
    /\ UNCHANGED <<gui, url, video_id, queue>>
    /\ UNCHANGED <<url_vars, dl_vars, crop_vars, meta_vars>>

\* Tk: the finally clause calls on_completed(None): _download_completed enables
\* every button and entry.
TkFinally ==
    /\ gui = "tk"
    /\ \E t \in TaskIds :
        /\ tasks[t].pc = "finally"
        /\ tasks' = [tasks EXCEPT ![t].pc = "done", ![t].calls = Append(@, "None")]
    /\ download_button' = TRUE
    /\ inputs' = TRUE
    /\ UNCHANGED <<gui, url, video_id, status, queue>>
    /\ UNCHANGED <<url_vars, dl_vars, crop_vars, meta_vars>>

\* The status url_text_changed shows for a URL.
QtUrlStatus(text) ==
    IF get_video_id(text).some THEN "Can download"
    ELSE IF text = <<>> \/ \A k \in 1..Len(text) : IsSpace(text[k]) THEN "No URL"
    ELSE "Invalid URL"

\* Qt: the user edits the URL; url_text_changed.
QtUrlTextChanged ==
    /\ gui = "qt"
    /\ inputs
    /\ \E text \in GuiUrls \ {url} :
        /\ url' = text
        /\ video_id' = get_video_id(text)
        /\ download_button' = get_video_id(text).some
        /\ status' = QtUrlStatus(text)
    /\ UNCHANGED <<gui, inputs, tasks, queue>>
    /\ UNCHANGED <<url_vars, dl_vars, crop_vars, meta_vars>>

\* Qt: Download is pressed; download_button_pressed disables the input controls
\* and hands a BackgroundWorker to the thread pool.
QtDownloadButtonPressed ==
    /\ gui = "qt"
    /\ download_button
    /\ Len(tasks) < MaxTasks
    /\ download_button' = FALSE
    /\ inputs' = FALSE
    /\ tasks' = Append(tasks, NewTask)
    /\ UNCHANGED <<gui, url, video_id, status, queue>>
    /\ UNCHANGED <<url_vars, dl_vars, crop_vars, meta_vars>>

\* Qt: the worker calls its target: download(video_id=self.video_id, ...) reads the
\* window's video_id now, and its first status is posted to the GUI thread.
QtRun ==
    /\ gui = "qt"
    /\ \E t \in TaskIds :
        /\ tasks[t].pc = "start"
        /\ tasks' = [tasks EXCEPT ![t].pc = "op", ![t].video_id = video_id]
        /\ queue' = Append(queue, <<"setText", t, "Initializing download">>)
    /\ UNCHANGED <<gui, url, video_id, download_button, inputs, status>>
    /\ UNCHANGED <<url_vars, dl_vars, crop_vars, meta_vars>>

\* Qt: the target returns; finished is emitted, which posts enable_input.
QtTargetReturns ==
    /\ gui = "qt"
    /\ \E t \in TaskIds :
        /\ tasks[t].pc = "op"
        /\ tasks' = [tasks EXCEPT ![t].pc = "done"]
        /\ queue' = queue \o << <<"setText", t, "Saved as">>, <<"enable_input", t, "">> >>
    /\ UNCHANGED <<gui, url, video_id, download_button, inputs, status>>
    /\ UNCHANGED <<url_vars, dl_vars, crop_vars, meta_vars>>

\* Qt: the target raises; finished[Exception] is emitted, which posts its three
\* slots in the order they were connected.
QtTargetRaises ==
    /\ gui = "qt"
    /\ \E t \in TaskIds, e \in GuiErrors :
        /\ tasks[t].pc = "op"
        /\ tasks' = [tasks EXCEPT ![t].pc = "done", ![t].error = e]
        /\ queue' = queue \o << <<"download_failed", t, e>>, <<"reset_status", t, "">>,
                                <<"enable_input", t, "">> >>
    /\ UNCHANGED <<gui, url, video_id, download_button, inputs, status>>
    /\ UNCHANGED <<url_vars, dl_vars, crop_vars, meta_vars>>

\* Qt: the GUI thread runs the next posted slot call.
QtDispatch ==
    /\ gui = "qt"
    /\ queue # <<>>
    /\ queue' = Tail(queue)
    /\ LET slot == Head(queue)[1]
       IN  CASE slot = "setText" ->
                    /\ status' = Head(queue)[3]
                    /\ UNCHANGED <<video_id, download_button, inputs>>
             [] slot = "download_failed" ->
                    UNCHANGED <<video_id, download_button, inputs, status>>
             [] slot = "reset_status" ->
                    /\ video_id' = get_video_id(url)
                    /\ download_button' = get_video_id(url).some
                    /\ status' = QtUrlStatus(url)
                    /\ UNCHANGED inputs
             [] slot = "enable_input" ->
                    /\ download_button' = TRUE
                    /\ inputs' = TRUE
                    /\ UNCHANGED <<video_id, status>>
    /\ UNCHANGED <<gui, url, tasks>>
    /\ UNCHANGED <<url_vars, dl_vars, crop_vars, meta_vars>>

GuiNext ==
    \/ TkUrlChanged
    \/ TkDownloadPressed
    \/ TkRunOp
    \/ TkOpReturns
    \/ TkOpRaises
    \/ TkExcept
    \/ TkFinally
    \/ QtUrlTextChanged
    \/ QtDownloadButtonPressed
    \/ QtRun
    \/ QtTargetReturns
    \/ QtTargetRaises
    \/ QtDispatch

SpecGui == GuiInit /\ [][GuiNext]_vars

\* The handling of task t's completion has not entirely finished: the task is
\* still running, or a slot call its finished signal posted is still to run.
Unfinished(t) ==
    \/ tasks[t].pc # "done"
    \/ \E k \in 1..Len(queue) :
          queue[k][2] = t /\ queue[k][1] \in {"download_failed", "reset_status", "enable_input"}

\* C8: while a download or the handling of its completion is unfinished, the
\* input controls and the Download button are disabled, and no second download is
\* unfinished at the same time.
C8_OneDownloadInFlight ==
    /\ (\E t \in TaskIds : Unfinished(t)) => (~download_button /\ ~inputs)
    /\ \A t1, t2 \in TaskIds : (Unfinished(t1) /\ Unfinished(t2)) => t1 = t2

\* C9: on_completed of a started BackgroundTask is called exactly once, with the
\* exception op raised or with None when op raised nothing.
C9_OnCompletedExactlyOnce ==
    gui = "tk" =>
        \A t \in TaskIds :
            /\ Len(tasks[t].calls) <= 1
            /\ tasks[t].pc = "done" =>
                  tasks[t].calls = <<IF tasks[t].error = "" THEN "None" ELSE tasks[t].error>>

\* C10: the Download button is enabled only if video_id is the identifier of the
\* URL in the entry, and no download was called with None as its video id.
C10_ButtonEnabledOnlyWithVideoId ==
    /\ download_button => (video_id.some /\ video_id = get_video_id(url))
    /\ \A t \in TaskIds : tasks[t].pc # "start" => tasks[t].video_id.some

=============================================================================
